---- MODULE Spec2Model ----
(***************************************************************************)
(* Fare and availability re-check of a booked Southwest flight:            *)
(* lib/fare_checker.py (FareChecker), lib/passenger_checker.py             *)
(* (PassengerChecker) and lib/utils.py (make_request, get_airport_code).   *)
(*                                                                         *)
(* Python values are modelled as follows.  A dict is a record (a function  *)
(* on strings); a key that is absent from the dict is absent from the      *)
(* record's DOMAIN.  A list is a sequence.  None is NoneVal.  A call that  *)
(* may raise returns a record [exc, val]: exc = "" is a normal return of   *)
(* val, any other exc is the name of the exception raised.                 *)
(***************************************************************************)
EXTENDS Integers, Sequences, FiniteSets, TLC

VARIABLES kind, flight, pc, step, attempts, max_attempts, sent, last_response,
          request, response, fare_type_bounds, query, flights, fare_type,
          flight_price, matching_flight, outcome, error, notifications,
          issued, completed

vars == <<kind, flight, pc, step, attempts, max_attempts, sent, last_response,
          request, response, fare_type_bounds, query, flights, fare_type,
          flight_price, matching_flight, outcome, error, notifications,
          issued, completed>>

(***************************************************************************)
(* Bounds of the model.                                                    *)
(***************************************************************************)
\* Most cards one shopping response carries, over all its pages.
MaxCards == 2
\* Longest fare list of one card.
MaxFares == 2
\* Most bounds (legs) of a reservation or change-flight page.
MaxBounds == 2
\* Largest max_attempts make_request is called with on its own.
MaxAttemptsArg == 7

(***************************************************************************)
(* Program constants.                                                      *)
(***************************************************************************)
BOOKING_URL == "mobile-air-booking/"
SHOPPING_URL == "mobile-air-shopping/v1/mobile-air-shopping/page/flights/products"
\* imported from lib/checkin_scheduler.py; its text is opaque to the checkers
VIEW_RESERVATION_URL == "VIEW_RESERVATION_URL/"
\* max_attempts passed by every make_request call of the two checkers
MAX_ATTEMPTS == 7

(***************************************************************************)
(* Python values.                                                          *)
(***************************************************************************)
NoneVal == [none |-> TRUE]
Return(v) == [exc |-> "", val |-> v]
Raise(e) == [exc |-> e, val |-> NoneVal]

Min(a, b) == IF a <= b THEN a ELSE b

\* All sequences over S of length lo..hi
SeqsOf(S, lo, hi) == UNION {[1..n -> S] : n \in lo..hi}

(***************************************************************************)
(* Input domains: the booked flight and the bodies the remote API returns. *)
(***************************************************************************)
Times == {"12:00", "1:00"}
FareIds == {"WGA", "ANY"}

\* FareDelta: the sign key does not exist when the price amount is 0
Lower == [sign |-> "-", amount |-> "10", currencyCode |-> "USD"]
Higher == [sign |-> "+", amount |-> "25", currencyCode |-> "USD"]
Unchanged == [amount |-> "0", currencyCode |-> "PTS"]

\* A fare of a card: fare["_meta"]["fareProductId"], fare["priceDifference"]
Fares ==
    { [fareProductId |-> "WGA", priceDifference |-> Lower],
      [fareProductId |-> "WGA", priceDifference |-> Higher],
      [fareProductId |-> "ANY", priceDifference |-> Unchanged] }
FareLists == SeqsOf(Fares, 0, MaxFares)

\* Cards of the change-shopping response
FareCards == [departureTime : Times, fares : FareLists]

\* Cards of the availability response: startingFromPrice holds a price,
\* is null, or is absent from the card
SeatCards ==
    [departureTime : Times, startingFromPrice : {[value |-> "100"], NoneVal}]
    \cup [departureTime : Times]

CardLists(n) == SeqsOf(FareCards, 0, n)

\* changeShoppingPage.flights: the pages the response displays, each with
\* its cards; a page that is not displayed is absent
ShoppingResponses ==
    { [p \in {} |-> <<>>] }
    \cup { [outboundPage |-> cs] : cs \in CardLists(MaxCards) }
    \cup { [inboundPage |-> cs] : cs \in CardLists(MaxCards) }
    \cup UNION { { [outboundPage |-> a, inboundPage |-> b] :
                     b \in CardLists(MaxCards - Len(a)) } :
                 a \in CardLists(MaxCards) }

\* flightShoppingPage.outboundPage.cards
AvailabilityResponses == SeqsOf(SeatCards, 0, MaxCards)

\* Non-200 responses of the remote API
Failures ==
    { [reason |-> "Not Found", status_code |-> 404],
      [reason |-> "Too Many Requests", status_code |-> 429] }

\* Airport names of the booked flight; get_airport_code knows only some
AirportNames == {"Miami", "Los Angeles", "Atlantis"}

\* (departure, destination) of the booked flights
Routes ==
    { <<"Miami", "Los Angeles">>,
      <<"Atlantis", "Los Angeles">>,
      <<"Miami", "Atlantis">> }

Flights ==
    { f \in [confirmation_number : {"ABC123"},
             local_departure_time : Times,
             departure_airport : AirportNames,
             destination_airport : AirportNames,
             departure_time : {<<"2023-01-01", "12:00:00">>}] :
        <<f.departure_airport, f.destination_airport>> \in Routes }

\* One bound of boundSelections; date and airports follow the leg's position
BoundSelection(idx, time) ==
    [originalDate |-> IF idx = 1 THEN "1/1" ELSE "1/2",
     toAirportCode |-> IF idx = 1 THEN "LAX" ELSE "MIA",
     fromAirportCode |-> IF idx = 1 THEN "MIA" ELSE "LAX",
     timeDeparts |-> time]

BoundReferenceNames == <<"bound_1", "bound_2", "bound_3">>

\* changeFlightPage: boundSelections, _links.changeShopping.{href, body}
ChangeFlightPageOf(times) ==
    [boundSelections |-> [i \in 1..Len(times) |-> BoundSelection(i, times[i])],
     href |-> <<"/", "s">>,
     body |-> [i \in 1..Len(times) |-> [boundReference |-> BoundReferenceNames[i]]]]

ChangeFlightPages == {ChangeFlightPageOf(ts) : ts \in SeqsOf(Times, 1, MaxBounds)}

\* hrefs of viewReservationViewPage._links.change, character by character
ChangeHrefs ==
    { <<"/", "v", "1", "/", "c">>,
      <<"c", "/", "v", "1", "/">>,
      <<"t">> }

\* viewReservationViewPage: bounds[i].fareProductDetails.fareProductId and
\* _links.change.{href, query}
Reservations ==
    [bounds : SeqsOf(FareIds, 1, MaxBounds),
     href : ChangeHrefs,
     query : {"change_query"}]

(***************************************************************************)
(* lib/utils.py                                                            *)
(***************************************************************************)
\* airports["airStations"] of utils/airport_stations.json
AirStations ==
    << [stationName |-> "Miami", id |-> "MIA"],
       [stationName |-> "Los Angeles", id |-> "LAX"] >>

RECURSIVE ScanStations(_, _, _)
ScanStations(airports, city, i) ==
    IF i > Len(airports) THEN NoneVal
    ELSE IF airports[i].stationName = city THEN [code |-> airports[i].id]
    ELSE ScanStations(airports, city, i + 1)

\* Variant: an unknown city is passed on as its own code
get_airport_code_or_name(city) ==
    IF ScanStations(AirStations, city, 1) = NoneVal
    THEN [code |-> city]
    ELSE ScanStations(AirStations, city, 1)

\* get_airport_code: the id of the first station named city, else None
get_airport_code(city) == ScanStations(AirStations, city, 1)

(***************************************************************************)
(* lib/fare_checker.py                                                     *)
(***************************************************************************)
RECURSIVE ScanFares(_, _, _)
ScanFares(fares, ft, i) ==
    IF i > Len(fares) THEN Raise("KeyError")
    ELSE IF fares[i].fareProductId = ft THEN Return(fares[i].priceDifference)
    ELSE ScanFares(fares, ft, i + 1)

RECURSIVE ScanFaresLast(_, _, _)
ScanFaresLast(fares, ft, i) ==
    IF i < 1 THEN Raise("KeyError")
    ELSE IF fares[i].fareProductId = ft THEN Return(fares[i].priceDifference)
    ELSE ScanFaresLast(fares, ft, i - 1)

\* Variant: the last fare of the expected type wins
GetMatchingFareLast(fares, ft) == ScanFaresLast(fares, ft, Len(fares))

\* FareChecker._get_matching_fare
GetMatchingFare(fares, ft) == ScanFares(fares, ft, 1)

RECURSIVE ScanCards(_, _, _, _)
ScanCards(cards, ft, fl, i) ==
    IF i > Len(cards) THEN Return(NoneVal)
    ELSE IF cards[i].departureTime = fl.local_departure_time
         THEN GetMatchingFare(cards[i].fares, ft)
    ELSE ScanCards(cards, ft, fl, i + 1)

\* Variant: a missing card is a lookup error
GetFlightPriceStrict(cards, ft, fl) ==
    IF \E i \in 1..Len(cards) : cards[i].departureTime = fl.local_departure_time
    THEN ScanCards(cards, ft, fl, 1)
    ELSE Raise("KeyError")

\* Variant: the first card is priced whatever its departure time
GetFlightPriceAnyCard(cards, ft, fl) ==
    IF cards = <<>> THEN Return(NoneVal) ELSE GetMatchingFare(cards[1].fares, ft)

\* FareChecker._get_flight_price, after _get_matching_flights has returned
\* (cards, ft): falls off the end of the loop, returning None, on no match
GetFlightPrice(cards, ft, fl) == ScanCards(cards, ft, fl, 1)

\* flight_price.get("sign", "")
SignOf(fp) == IF "sign" \in DOMAIN fp THEN fp.sign ELSE ""

\* Variant: the sign is left out of the price string
PriceInfoUnsigned(fp) == fp.amount \o " " \o fp.currencyCode

\* f"{sign}{flight_price['amount']} {flight_price['currencyCode']}"
PriceInfo(fp) == SignOf(fp) \o fp.amount \o " " \o fp.currencyCode

\* Variant: every signed price change is notified
IsLowerFareAnySign(sign) == sign # ""

\* The decision of check_flight_price: is the lower-fare path taken
IsLowerFare(sign) == sign = "-"

\* FareChecker.check_flight_price, after _get_flight_price has returned or
\* raised price: the exception that leaves the check ("" if none) and the
\* notifier calls made
CheckFlightPrice(price, fl) ==
    IF price.exc # "" THEN [exc |-> price.exc, calls |-> <<>>]
    ELSE IF price.val = NoneVal THEN [exc |-> "AttributeError", calls |-> <<>>]
    ELSE IF ~ ({"amount", "currencyCode"} \subseteq DOMAIN price.val)
         THEN [exc |-> "KeyError", calls |-> <<>>]
    ELSE [exc |-> "",
          calls |-> IF IsLowerFare(SignOf(price.val))
                    THEN << [path |-> "lower_fare", flight |-> fl,
                             price_info |-> PriceInfo(price.val)] >>
                    ELSE <<>>]

BoundNames == <<"outbound", "inbound">>

\* "isChangeBound": bound["timeDeparts"] == flight.local_departure_time
IsChangeBound(bound, fl) == bound.timeDeparts = fl.local_departure_time

\* One entry of search_terms
SearchTerm(flight_page, fl, idx) ==
    [boundReference |-> flight_page.body[idx].boundReference,
     date |-> flight_page.boundSelections[idx].originalDate,
     destination_airport |-> flight_page.boundSelections[idx].toAirportCode,
     origin_airport |-> flight_page.boundSelections[idx].fromAirportCode,
     isChangeBound |-> IsChangeBound(flight_page.boundSelections[idx], fl)]

\* FareChecker._get_search_query: dict(zip(["outbound", "inbound"], search_terms))
GetSearchQuery(flight_page, fl) ==
    LET n == Min(Len(BoundNames), Len(flight_page.boundSelections))
    IN  [k \in {BoundNames[i] : i \in 1..n} |->
            SearchTerm(flight_page, fl,
                       CHOOSE i \in 1..n : BoundNames[i] = k)]

\* bound_page = "outboundPage" if query["outbound"]["isChangeBound"] else "inboundPage"
BoundPage(q) == IF q["outbound"].isChangeBound THEN "outboundPage" ELSE "inboundPage"

\* Variant: the fare type is always taken from the first bound
BoundIndexFirst(bound_page) == 0

\* bound = 0 if bound_page == "outboundPage" else 1
BoundIndex(bound_page) == IF bound_page = "outboundPage" THEN 0 ELSE 1

(***************************************************************************)
(* lib/passenger_checker.py                                                *)
(***************************************************************************)
RECURSIVE ScanAvailable(_, _, _)
ScanAvailable(fl, cards, i) ==
    IF i > Len(cards) THEN NoneVal
    ELSE IF cards[i].departureTime = fl.local_departure_time THEN cards[i]
    ELSE ScanAvailable(fl, cards, i + 1)

\* PassengerChecker._find_matching_flight: None when the loop finds no card
FindMatchingFlight(fl, flights_available) == ScanAvailable(fl, flights_available, 1)

\* matching_flight["startingFromPrice"] is None
IsUnavailable(card) == card.startingFromPrice = NoneVal

\* Variant: a flight that is not found is reported as unavailable first
CheckPassengerAvailabilityEager(matching, fl) ==
    IF matching = NoneVal
    THEN [exc |-> "TypeError",
          calls |-> << [path |-> "flight_unavailable", flight |-> fl] >>]
    ELSE IF "startingFromPrice" \notin DOMAIN matching
         THEN [exc |-> "KeyError", calls |-> <<>>]
    ELSE [exc |-> "",
          calls |-> IF IsUnavailable(matching)
                    THEN << [path |-> "flight_unavailable", flight |-> fl] >>
                    ELSE <<>>]

\* PassengerChecker.check_passenger_availability, after the matching flight
\* was looked up: the exception that leaves the check and the notifier calls
CheckPassengerAvailability(matching, fl) ==
    IF matching = NoneVal THEN [exc |-> "TypeError", calls |-> <<>>]
    ELSE IF "startingFromPrice" \notin DOMAIN matching
         THEN [exc |-> "KeyError", calls |-> <<>>]
    ELSE [exc |-> "",
          calls |-> IF IsUnavailable(matching)
                    THEN << [path |-> "flight_unavailable", flight |-> fl] >>
                    ELSE <<>>]

\* info of _search_for_new_booking_on_same_flight
AvailabilityInfo(fl) ==
    [origination_airport |-> get_airport_code(fl.departure_airport),
     destination_airport |-> get_airport_code(fl.destination_airport),
     departure_date |-> fl.departure_time[1],
     number_adult_passengers |-> "8",
     currency |-> "USD"]

\* str(response.status_code)
StatusStr(code) == IF code = 404 THEN "404" ELSE "429"

\* "/v1/" in href
HasV1(href) ==
    \E i \in 1..(Len(href) - 3) : SubSeq(href, i, i + 3) = <<"/", "v", "1", "/">>

\* Fix for the extra slash in changeFlightPage's href: href[1:]
FixHref(href) == IF HasV1(href) THEN SubSeq(href, 2, Len(href)) ELSE href

(***************************************************************************)
(* The state machine: one check of one booked flight.                      *)
(*                                                                         *)
(* pc is the position of the check: "idle" before it is invoked, "request" *)
(* at the head of make_request's loop, "parse" when a 200 response is being*)
(* returned as response.json(), "handle" when the caller has the JSON, and *)
(* "done" after the check returned or raised.  sent counts the requests    *)
(* make_request has handed to the transport in the current call; issued    *)
(* and completed list the steps whose make_request was called and returned.*)
(***************************************************************************)
Pending == [exc |-> "pending", val |-> NoneVal]

\* The 200 response of the remote API
OkResponse == [reason |-> "OK", status_code |-> 200]

\* The invocations: the price check does not read the flight's airports
Checks ==
    [kind : {"price"},
     flight : {f \in Flights : f.departure_airport = "Miami"
                                /\ f.destination_airport = "Los Angeles"}]
    \cup [kind : {"availability"}, flight : Flights]

\* State before any request, shared by the specifications
InitLocals ==
    /\ response = NoneVal
    /\ fare_type_bounds = <<>>
    /\ query = NoneVal
    /\ flights = <<>>
    /\ fare_type = ""
    /\ flight_price = Pending
    /\ matching_flight = Pending
    /\ outcome = "running"
    /\ error = ""
    /\ notifications = <<>>
    /\ completed = <<>>

Init ==
    /\ \E c \in Checks : kind = c.kind /\ flight = c.flight
    /\ pc = "idle"
    /\ step = "none"
    /\ attempts = 0
    /\ max_attempts = 0
    /\ sent = 0
    /\ last_response = NoneVal
    /\ request = NoneVal
    /\ issued = <<>>
    /\ InitLocals

\* The check ends: exc is the exception that leaves it, "" on a normal return
Finish(exc, calls) ==
    /\ pc' = "done"
    /\ step' = "none"
    /\ attempts' = 0
    /\ outcome' = IF exc = "" THEN "returned" ELSE exc
    /\ notifications' = notifications \o calls

\* make_request is called: attempts = 1
Call(s, method, site, info) ==
    /\ pc' = "request"
    /\ step' = s
    /\ attempts' = 1
    /\ max_attempts' = MAX_ATTEMPTS
    /\ sent' = 0
    /\ last_response' = NoneVal
    /\ request' = [method |-> method, site |-> site, info |-> info]
    /\ issued' = Append(issued, s)

\* check_flight_price up to the first make_request of _get_change_flight_page
StartPrice ==
    /\ pc = "idle"
    /\ kind = "price"
    /\ Call("reservation", "GET",
            <<VIEW_RESERVATION_URL, flight.confirmation_number>>,
            [first_name |-> "first", last_name |-> "last"])
    /\ UNCHANGED <<kind, flight, response, fare_type_bounds, query,
                   flights, fare_type, flight_price, matching_flight, outcome,
                   error, notifications, completed>>

\* check_passenger_availability up to the make_request of
\* _search_for_new_booking_on_same_flight
StartAvailability ==
    /\ pc = "idle"
    /\ kind = "availability"
    /\ Call("availability", "GET", <<SHOPPING_URL>>, AvailabilityInfo(flight))
    /\ UNCHANGED <<kind, flight, response, fare_type_bounds, query,
                   flights, fare_type, flight_price, matching_flight, outcome,
                   error, notifications, completed>>

\* Variant: the loop makes one pass too many
WhileAttemptsInclusive(a, n) == a <= n + 1

\* while attempts <= max_attempts
WhileAttempts(a, n) == a <= n

\* error = response.reason + " " + str(response.status_code)
ErrorOf(resp) == resp.reason \o " " \o StatusStr(resp.status_code)

\* make_request: one pass of the loop whose response is not 200
MakeRequestRetry ==
    /\ pc = "request"
    /\ WhileAttempts(attempts, max_attempts)
    /\ \E failure \in Failures : last_response' = failure
    /\ sent' = sent + 1
    /\ attempts' = attempts + 1
    /\ UNCHANGED <<kind, flight, pc, step, max_attempts, request, response,
                   fare_type_bounds, query, flights, fare_type, flight_price,
                   matching_flight, outcome, error, notifications, issued,
                   completed>>

\* make_request: a pass of the loop whose response is 200
MakeRequestOk ==
    /\ pc = "request"
    /\ WhileAttempts(attempts, max_attempts)
    /\ last_response' = OkResponse
    /\ sent' = sent + 1
    /\ pc' = "parse"
    /\ UNCHANGED <<kind, flight, step, attempts, max_attempts, request,
                   response, fare_type_bounds, query, flights, fare_type,
                   flight_price, matching_flight, outcome, error,
                   notifications, issued, completed>>

\* make_request returns response.json() to the checker that called it
MakeRequestReturn ==
    /\ pc = "parse"
    /\ step # "standalone"
    /\ pc' = "handle"
    /\ attempts' = 0
    /\ sent' = 0
    /\ last_response' = NoneVal
    /\ completed' = Append(completed, step)
    /\ UNCHANGED <<kind, flight, step, max_attempts, request, response,
                   fare_type_bounds, query, flights, fare_type, flight_price,
                   matching_flight, outcome, error, notifications, issued>>

\* Variant: the exhausted request is swallowed and the caller goes on
MakeRequestFailSwallowed ==
    /\ pc = "request"
    /\ ~ WhileAttempts(attempts, max_attempts)
    /\ pc' = "handle"
    /\ UNCHANGED <<kind, flight, step, attempts, max_attempts, sent,
                   last_response, request, response, fare_type_bounds, query,
                   flights, fare_type, flight_price, matching_flight, outcome,
                   error, notifications, issued, completed>>

\* make_request: the loop ends, RequestError(reason + " " + status_code)
MakeRequestFail ==
    /\ pc = "request"
    /\ ~ WhileAttempts(attempts, max_attempts)
    /\ Finish("RequestError", <<>>)
    /\ error' = ErrorOf(last_response)
    /\ UNCHANGED <<kind, flight, max_attempts, sent, last_response, request,
                   response, fare_type_bounds, query, flights, fare_type,
                   flight_price, matching_flight, issued, completed>>

\* site = BOOKING_URL + info["href"], after the fix of the href
ChangePageSite(href) == <<BOOKING_URL>> \o FixHref(href)

\* Variant: the shopping request goes to the fixed shopping path
ChangeShoppingSiteFixed(flight_page) == <<SHOPPING_URL>>

\* site = BOOKING_URL + info["href"] of _links.changeShopping
ChangeShoppingSite(flight_page) == <<BOOKING_URL>> \o flight_page.href

\* _get_change_flight_page from the reservation response to its second
\* make_request
ReservationResponse ==
    /\ pc = "handle"
    /\ step = "reservation"
    /\ \E r \in Reservations :
          /\ response' = r
          /\ fare_type_bounds' = r.bounds
          /\ Call("change_page", "GET", ChangePageSite(r.href), r.query)
    /\ UNCHANGED <<kind, flight, query, flights, fare_type, flight_price,
                   matching_flight, outcome, error, notifications, completed>>

\* _get_change_flight_page returns; _get_matching_flights builds the query,
\* resolves the bound page and the fare type and calls make_request.
\* fare_type_bounds is not read again and is dropped.
ChangeFlightPageResponse ==
    /\ pc = "handle"
    /\ step = "change_page"
    /\ \E page \in ChangeFlightPages :
          LET q == GetSearchQuery(page, flight)
              bound == BoundIndex(BoundPage(q))
          IN  /\ response' = page
              /\ query' = q
              /\ fare_type_bounds' = <<>>
              /\ IF bound + 1 \in DOMAIN fare_type_bounds
                 THEN /\ fare_type' = fare_type_bounds[bound + 1]
                      /\ Call("shopping", "POST", ChangeShoppingSite(page), q)
                      /\ UNCHANGED <<outcome, notifications>>
                 ELSE /\ Finish("IndexError", <<>>)
                      /\ UNCHANGED <<fare_type, request, max_attempts, sent,
                                     last_response, issued>>
    /\ UNCHANGED <<kind, flight, flights, flight_price, matching_flight,
                   error, completed>>

\* _get_matching_flights returns the cards of the bound page, then
\* _get_flight_price and the rest of check_flight_price run
ShoppingResponse ==
    /\ pc = "handle"
    /\ step = "shopping"
    /\ \E r \in ShoppingResponses :
          /\ response' = r
          /\ IF BoundPage(query) \in DOMAIN r
             THEN /\ flights' = r[BoundPage(query)]
                  /\ flight_price' = GetFlightPrice(flights', fare_type, flight)
                  /\ LET result == CheckFlightPrice(flight_price', flight)
                     IN  Finish(result.exc, result.calls)
             ELSE /\ Finish("KeyError", <<>>)
                  /\ UNCHANGED <<flights, flight_price>>
    /\ UNCHANGED <<kind, flight, max_attempts, sent, last_response, request,
                   fare_type_bounds, query, fare_type, matching_flight, error,
                   issued, completed>>

\* _search_for_new_booking_on_same_flight returns the outbound cards, then
\* _find_matching_flight and the rest of check_passenger_availability run
AvailabilityResponse ==
    /\ pc = "handle"
    /\ step = "availability"
    /\ \E cards \in AvailabilityResponses :
          /\ response' = cards
          /\ flights' = cards
          /\ matching_flight' = Return(FindMatchingFlight(flight, cards))
          /\ LET result == CheckPassengerAvailability(matching_flight'.val, flight)
             IN  Finish(result.exc, result.calls)
    /\ UNCHANGED <<kind, flight, max_attempts, sent, last_response, request,
                   fare_type_bounds, query, fare_type, flight_price, error,
                   issued, completed>>

Next ==
    \/ StartPrice
    \/ StartAvailability
    \/ MakeRequestRetry
    \/ MakeRequestOk
    \/ MakeRequestReturn
    \/ MakeRequestFail
    \/ ReservationResponse
    \/ ChangeFlightPageResponse
    \/ ShoppingResponse
    \/ AvailabilityResponse

Spec == Init /\ [][Next]_vars

(***************************************************************************)
(* make_request on its own, called with max_attempts = 1..MaxAttemptsArg.  *)
(***************************************************************************)
InitRequest ==
    /\ kind = "make_request"
    /\ flight = NoneVal
    /\ pc = "request"
    /\ step = "standalone"
    /\ attempts = 1
    /\ max_attempts \in 1..MaxAttemptsArg
    /\ sent = 0
    /\ last_response = NoneVal
    /\ \E method \in {"GET", "POST"} :
          request = [method |-> method, site |-> <<"site">>, info |-> NoneVal]
    /\ issued = <<"standalone">>
    /\ InitLocals

NextRequest ==
    \/ MakeRequestRetry
    \/ MakeRequestOk
    \/ MakeRequestFail

SpecRequest == InitRequest /\ [][NextRequest]_vars

\* Every pass of the loop is a blocking call that comes back with a response
SpecRequestFair == SpecRequest /\ WF_vars(NextRequest)

TypeOK ==
    /\ pc \in {"idle", "request", "parse", "handle", "done"}
    /\ attempts \in 0..(max_attempts + 1)
    /\ Len(notifications) <= 1

(***************************************************************************)
(* Properties.                                                             *)
(***************************************************************************)
\* _get_flight_price has run in a price check (all three requests succeeded
\* and the bound page was in the response)
PriceLookupRan == kind = "price" /\ flight_price.exc # "pending"

\* No card of the resolved card list departs at the booked flight's time
NoCardMatches ==
    \A i \in 1..Len(flights) :
        flights[i].departureTime # flight.local_departure_time

\* The price lookup returned a fare delta
HasFareDelta ==
    PriceLookupRan /\ flight_price.exc = "" /\ flight_price.val # NoneVal

LowerFareCall(price_info) ==
    [path |-> "lower_fare", flight |-> flight, price_info |-> price_info]

\* C1: a fare delta with sign "-" makes check_flight_price call lower_fare
\* exactly once, with the booked flight and sign+amount+" "+currencyCode
\* ("-10 USD" for {-, 10, USD}), and call nothing else of the notifier.
C1_LowerFareNotifiedOnce ==
    (HasFareDelta /\ "sign" \in DOMAIN flight_price.val
        /\ flight_price.val.sign = "-")
    => /\ outcome = "returned"
       /\ notifications =
            << LowerFareCall("-" \o flight_price.val.amount \o " "
                             \o flight_price.val.currencyCode) >>
       /\ (flight_price.val = Lower
            => notifications[1].price_info = "-10 USD")

C1_Witness ==
    /\ pc = "done"
    /\ HasFareDelta
    /\ flight_price.val = Lower
    /\ notifications = << LowerFareCall("-10 USD") >>

\* C2: a fare delta with sign "+" or without a sign key makes
\* check_flight_price return without any notifier call.
C2_NoNotificationUnlessLower ==
    (HasFareDelta /\ ("sign" \notin DOMAIN flight_price.val
                        \/ flight_price.val.sign = "+"))
    => /\ outcome = "returned"
       /\ notifications = <<>>

C2_Witness ==
    /\ pc = "done"
    /\ HasFareDelta
    /\ flight_price.val = Higher
    /\ outcome = "returned"
    /\ notifications = <<>>

\* C3: when the three requests succeed and no card of the resolved list
\* departs at the booked flight's time, check_flight_price returns normally
\* and sends no notification.
C3_NoMatchEndsSilently ==
    (pc = "done" /\ PriceLookupRan /\ NoCardMatches)
    => /\ outcome = "returned"
       /\ notifications = <<>>

\* C4: _get_flight_price returns None, raising nothing, whenever no card of
\* the list (the empty list included) departs at the booked flight's time.
C4_NoMatchReturnsNone ==
    (PriceLookupRan /\ NoCardMatches) => flight_price = Return(NoneVal)

C4_Witness ==
    /\ PriceLookupRan
    /\ Len(flights) = 2
    /\ NoCardMatches
    /\ flight_price = Return(NoneVal)

\* _find_matching_flight found a card in an availability check
AvailabilityMatched ==
    /\ kind = "availability"
    /\ matching_flight.exc = ""
    /\ matching_flight.val # NoneVal

FlightUnavailableCall == [path |-> "flight_unavailable", flight |-> flight]

\* C5: check_passenger_availability calls flight_unavailable, exactly once,
\* iff the matched card's startingFromPrice is null or absent from the card;
\* with a price it returns without a notification.
C5_UnavailableIffNoPrice ==
    (pc = "done" /\ AvailabilityMatched)
    => LET card == matching_flight.val
           noPrice == \/ "startingFromPrice" \notin DOMAIN card
                      \/ card.startingFromPrice = NoneVal
       IN  /\ noPrice => notifications = << FlightUnavailableCall >>
           /\ ~ noPrice => (outcome = "returned" /\ notifications = <<>>)

LookupErrors == {"KeyError", "IndexError", "LookupError"}

\* C6: when the availability request succeeds and no outbound card departs
\* at the booked flight's time, check_passenger_availability ends in a lookup
\* error (not in the normal return of the price flow's no-match case) and
\* sends no notification.
C6_NoMatchIsLookupError ==
    (pc = "done" /\ kind = "availability" /\ matching_flight = Return(NoneVal))
    => /\ outcome \in LookupErrors
       /\ notifications = <<>>

\* _get_search_query has built the query from the change-flight page that
\* response still holds
QueryBuilt == query # NoneVal /\ "boundSelections" \in DOMAIN response

\* The entry of the query built from bound idx carries that bound's data
EntryFromBound(idx) ==
    LET entry == query[BoundNames[idx]]
        bound == response.boundSelections[idx]
    IN  /\ entry.boundReference = response.body[idx].boundReference
        /\ entry.date = bound.originalDate
        /\ entry.destination_airport = bound.toAirportCode
        /\ entry.origin_airport = bound.fromAirportCode

\* C7: for a page of two bounds the query has exactly the keys "outbound"
\* (from bound 0) and "inbound" (from bound 1), and isChangeBound is true for
\* exactly one of them, the one that departs at the booked flight's time.
C7_RoundTripQuery ==
    (QueryBuilt /\ Len(response.boundSelections) = 2)
    => /\ DOMAIN query = {"outbound", "inbound"}
       /\ \A idx \in 1..2 :
             /\ EntryFromBound(idx)
             /\ query[BoundNames[idx]].isChangeBound
                  <=> (response.boundSelections[idx].timeDeparts
                         = flight.local_departure_time)
       /\ Cardinality({idx \in 1..2 : query[BoundNames[idx]].isChangeBound}) = 1

\* C8: for a page of one bound the query has exactly the key "outbound",
\* built from that bound, with isChangeBound true.
C8_OneWayQuery ==
    (QueryBuilt /\ Len(response.boundSelections) = 1)
    => /\ DOMAIN query = {"outbound"}
       /\ EntryFromBound(1)
       /\ query["outbound"].isChangeBound = TRUE

FirstMatch ==
    CHOOSE i \in 1..Len(flights) :
        /\ flights[i].departureTime = flight.local_departure_time
        /\ \A j \in 1..(i - 1) :
              flights[j].departureTime # flight.local_departure_time

\* C10: fare matching returns the priceDifference of the first fare of the
\* matched card whose fare product id is the expected fare type and raises
\* KeyError when the list (the empty list included) has none; a missing card
\* does not end in that error.
C10_FareMatching ==
    /\ (PriceLookupRan /\ ~ NoCardMatches)
        => LET fares == flights[FirstMatch].fares
               hits == {j \in 1..Len(fares) : fares[j].fareProductId = fare_type}
           IN  IF hits # {}
               THEN flight_price =
                      Return(fares[CHOOSE j \in hits : \A k \in hits : j <= k]
                                .priceDifference)
               ELSE flight_price = Raise("KeyError") /\ outcome = "KeyError"
    /\ (PriceLookupRan /\ NoCardMatches)
        => (flight_price.exc # "KeyError" /\ outcome # "KeyError")

C10_Witness ==
    /\ PriceLookupRan
    /\ ~ NoCardMatches
    /\ LET fares == flights[FirstMatch].fares
       IN  /\ Len(fares) = 2
           /\ fares[1].fareProductId = fare_type
           /\ fares[2].fareProductId = fare_type
           /\ fares[1].priceDifference # fares[2].priceDifference
           /\ flight_price = Return(fares[1].priceDifference)

\* The reason phrase and status code of a non-200 response, as text
ReasonAndStatus(resp) ==
    IF resp.status_code = 404 THEN "Not Found 404" ELSE "Too Many Requests 429"

\* make_request has received a 200 response
Got200 == last_response # NoneVal /\ last_response.status_code = 200

\* C11: make_request with max_attempts = N >= 1 terminates; it sends one
\* request at a time and never more than N; it returns on the first 200
\* response and sends nothing after it; after N non-200 responses it has
\* sent exactly N requests and raises RequestError with the last response's
\* reason phrase and status code.
C11_MakeRequestBounded ==
    /\ [](/\ sent <= max_attempts
          /\ Got200 <=> pc = "parse"
          /\ pc = "parse" => sent >= 1
          /\ pc = "done" => /\ outcome = "RequestError"
                            /\ sent = max_attempts
                            /\ ~ Got200
                            /\ error = ReasonAndStatus(last_response))
    /\ [][sent' # sent => (sent' = sent + 1 /\ pc = "request" /\ ~ Got200)]_vars
    /\ [][pc # "request" => UNCHANGED <<sent, pc, outcome, error>>]_vars
    /\ <>(pc \in {"parse", "done"})

C11_Witness ==
    /\ pc = "done"
    /\ outcome = "RequestError"
    /\ max_attempts = 3
    /\ sent = 3
    /\ last_response.status_code = 429
    /\ error = "Too Many Requests 429"

\* The steps of a price check, in order
PriceSteps == <<"reservation", "change_page", "shopping">>

\* s is a prefix of t
IsPrefix(s, t) == Len(s) <= Len(t) /\ s = SubSeq(t, 1, Len(s))

\* No step occurs twice in s
NoRepeat(s) == \A i, j \in 1..Len(s) : s[i] = s[j] => i = j

\* C12: when make_request exhausts its attempts at any step of a check, the
\* RequestError leaves the check: no later step is issued, the failed step
\* is not issued again and no notification is sent.
C12_RequestErrorPropagates ==
    /\ [][(pc = "request" /\ attempts > max_attempts)
            => /\ pc' = "done"
               /\ outcome' = "RequestError"
               /\ error' = ReasonAndStatus(last_response)
               /\ issued' = issued
               /\ notifications' = <<>>]_vars
    /\ [](outcome = "RequestError"
            => /\ pc = "done"
               /\ notifications = <<>>
               /\ NoRepeat(issued)
               /\ Len(issued) = Len(completed) + 1
               /\ IsPrefix(completed, issued))
    /\ [][outcome = "RequestError" => UNCHANGED <<issued, notifications, outcome>>]_vars

C12_Witness ==
    /\ outcome = "RequestError"
    /\ issued = PriceSteps
    /\ completed = <<"reservation", "change_page">>
    /\ request.method = "POST"
    /\ notifications = <<>>

\* C14: a price check calls make_request for the reservation (GET), the
\* change-flight page (GET) and the shopping query (POST) in that order,
\* each at most once and only after the previous call returned; the
\* change-flight-page request takes its link and query from the reservation
\* response, the shopping request its link and bound references from the
\* change-flight page.
C14_RequestOrder ==
    /\ [](kind = "price"
            => /\ IsPrefix(issued, PriceSteps)
               /\ IsPrefix(completed, issued)
               /\ Len(issued) <= Len(completed) + 1)
    /\ [][(kind = "price" /\ issued' # issued)
            => /\ pc = IF issued = <<>> THEN "idle" ELSE "handle"
               /\ step' = "reservation"
                    => /\ request'.method = "GET"
                       /\ request'.site = <<VIEW_RESERVATION_URL,
                                            flight.confirmation_number>>
               /\ step' = "change_page"
                    => /\ request'.method = "GET"
                       /\ request'.site \in
                            { <<BOOKING_URL>> \o response'.href,
                              <<BOOKING_URL>> \o Tail(response'.href) }
                       /\ request'.info = response'.query
               /\ step' = "shopping"
                    => /\ request'.method = "POST"
                       /\ request'.site = <<BOOKING_URL>> \o response'.href
                       /\ \A i \in 1..Len(response'.body) :
                             i <= Len(BoundNames)
                             => /\ BoundNames[i] \in DOMAIN request'.info
                                /\ request'.info[BoundNames[i]].boundReference
                                     = response'.body[i].boundReference]_vars

C14_Witness ==
    /\ kind = "price"
    /\ pc = "request"
    /\ issued = PriceSteps
    /\ request.method = "POST"
    /\ DOMAIN request.info = {"outbound", "inbound"}
    /\ request.info["inbound"].boundReference = "bound_2"

C16_HrefFix ==
    (kind = "price" /\ step = "change_page")
    => /\ request.info = response.query
       /\ IF HasV1(response.href)
          THEN /\ request.site = <<BOOKING_URL>> \o Tail(response.href)
               /\ Head(response.href) = "/"
          ELSE request.site = <<BOOKING_URL>> \o response.href

\* The airport-code lookup has no code for this name
UnknownAirport(name) ==
    \A i \in 1..Len(AirStations) : AirStations[i].stationName # name

\* C17: in an availability check an airport name without a code raises
\* nothing: the shopping request is issued with None for that airport and
\* with number-adult-passengers "8" and currency "USD".
C17_UnknownAirportPassedOn ==
    (kind = "availability" /\ pc # "idle")
    => /\ issued = <<"availability">>
       /\ pc = "request" => outcome = "running"
       /\ request.method = "GET"
       /\ request.site = <<SHOPPING_URL>>
       /\ request.info.number_adult_passengers = "8"
       /\ request.info.currency = "USD"
       /\ UnknownAirport(flight.departure_airport)
            => request.info.origination_airport = NoneVal
       /\ UnknownAirport(flight.destination_airport)
            => request.info.destination_airport = NoneVal

C17_Witness ==
    /\ kind = "availability"
    /\ pc = "request"
    /\ flight.destination_airport = "Atlantis"
    /\ request.info.destination_airport = NoneVal
    /\ request.info.origination_airport = [code |-> "MIA"]

\* C18: the fare-product index that bound-page resolution chooses is an
\* index of the reservation's bounds and the chosen page is one the query
\* asked for; a one-way check never takes inboundPage or index 1.
C18_BoundIndexValid ==
    (kind = "price" /\ query # NoneVal)
    => /\ outcome # "IndexError"
       /\ ~ query["outbound"].isChangeBound => "inbound" \in DOMAIN query

\* The requests a check of this kind makes
StepsOf(k) == IF k = "price" THEN PriceSteps ELSE <<"availability">>

\* C19: a check sends at most one notification, only after every request of
\* the check has returned, and none on a path that ends in an error.
C19_NotificationAfterRequests ==
    /\ Len(notifications) <= 1
    /\ notifications # <<>>
         => /\ pc = "done"
            /\ outcome = "returned"
            /\ issued = StepsOf(kind)
            /\ completed = StepsOf(kind)
    /\ outcome \notin {"running", "returned"} => notifications = <<>>

C19_Witness ==
    /\ kind = "price"
    /\ Len(notifications) = 1
    /\ completed = PriceSteps
    /\ outcome = "returned"

====
